---- MODULE Spec2Model ----
(***************************************************************************)
(* Decision scheduling and admission control of the IntelligentAgent       *)
(* backend: RateLimiter and PARLEngine (backend/app/parl/parl_engine.py)    *)
(* and the SimulationEngine loop (backend/app/simulation/engine.py).        *)
(*                                                                         *)
(* The program is single-process cooperative asyncio code: everything      *)
(* between two awaits that suspend runs atomically, so every action below  *)
(* is one such segment.                                                    *)
(***************************************************************************)
EXTENDS Integers, Sequences, FiniteSets, TLC

\* ------------------------------------------------------------------ bounds
\* Number of concurrent callers (coroutines) of the limiter / of reason().
NumCallers == 3
\* rpm_limit ranges over 0..MaxRpm.
MaxRpm == 2
\* The clock stops advancing after MaxTime seconds.
MaxTime == 65
\* The sanitizer is run at most MaxSanRuns times.
MaxSanRuns == 1
\* The step counter stops at MaxSteps.
MaxSteps == 4
\* how many decisions of one agent are sanitized in a row
MaxHistory == 5

\* --------------------------------------------------------------- constants
\* The trailing window of both ledgers, in seconds (now - t < 60).
Window == 60
\* Clock resolution: the limiter's epsilon is 0.1 s, so one tick is 1/10 s.
TicksPerSecond == 10
\* The estimate reason() reserves for every attempt.
EstimatedUsage == 600

WindowTicks == Window * TicksPerSecond
\* The "+ 0.1" of both wait_time computations, in ticks.
Epsilon == 1

Callers == 1..NumCallers
\* An asyncio.Lock is the set of its holders: {} when free, {c} when c holds it.
Unlocked == {}

\* Limits and costs the limiter is exercised with: the 70b configuration
\* (4000 tokens per minute), a tight one, and estimates below and above it.
TpmLimits == {1000, 4000}
Costs == {EstimatedUsage, 1200}
\* What a finished call reports as its actual usage: above the smaller
\* estimate and below the larger one.
Actuals == {900}
\* The clock advances in steps of about half a window, so that ages just
\* below (598), at (600) and just above (602) the window all occur.
AdvanceSteps == {WindowTicks \div 2 - 1, WindowTicks \div 2 + 1}

VARIABLES
    \* --- RateLimiter
    now,                 \* datetime.now().timestamp(), in ticks
    rpm_limit,
    tpm_limit,
    request_timestamps,  \* list of admission timestamps
    token_timestamps,    \* list of (cost, timestamp) tuples
    rl_holder,           \* RateLimiter.lock: its holder ({} when free)
    rl_waiters,          \* RateLimiter.lock: the FIFO of waiting coroutines
    rl_pc,               \* where each caller is in the limiter
    rl_est,              \* the estimated_tokens argument of each caller
    rl_actual,           \* the actual argument of a pending update_actual_usage
    rl_wake,             \* the time a sleeping caller's asyncio.sleep ends
    rl_called_at,        \* history: when a caller in wait_for_capacity issued its call
    admit_log,           \* history: every admission's <<issued at, admitted at>>
    correction_log,      \* history: every (cost, timestamp) update_actual_usage appended
    \* --- PARLEngine._sanitize_response
    action_history,      \* self.action_history: agent -> list of {action, target}
    san_raw,             \* the dictionary the last sanitizer run was given
    san_names,           \* context["all_agent_names"] of the last run
    san_out,             \* what the last run returned, or that it raised
    san_runs,            \* number of sanitizer runs so far
    \* --- PARLEngine.reason
    llm_provider,        \* self.llm_provider: "ollama" or "groq"
    eng_holder,          \* PARLEngine.lock: its holder ({} when free)
    eng_waiters,         \* PARLEngine.lock: the FIFO of waiting reason() calls
    pc,                  \* where each caller's reason() call is
    attempt,             \* the loop variable of "for attempt in range(3)"
    eng_sleep,           \* the duration of the asyncio.sleep a call is in, in ticks
    decision,            \* what the call that returned last returned
    returned_to,         \* the caller that call returned to ({} before any has)
    enqueue_order,       \* history: the calls in the order they reached the lock
    acquire_order,       \* history: the calls in the order they got the lock
    transports,          \* history: transport invocations each call has begun
    outcomes,            \* history: how each call ended ("sanitized", "fallback")
    parse_failed,        \* history: whether a response of the call could not be parsed
    prev_backoff,        \* history: the last rate-limit backoff of the call in progress
    total_tokens,        \* history: total_tokens of the last response with status 200
    parsed,              \* history: whether a response of the call was parsed
    \* --- SimulationEngine
    is_running,          \* self.is_running
    step_count,          \* self.step_count
    num_workers,         \* len(self.agents)
    agents_per_step,     \* self.agents_per_step
    decision_cache,      \* self.decision_cache: worker -> (decision, step_made)
    start_pending,       \* start() calls that are still generating plans
    loop_pc,             \* where each _simulation_loop task is
    batch,               \* agents_to_process of each loop, as indices into self.agents
    loop_pos,            \* the position in the batch of the worker a loop is at
    result,              \* the local "result" of each loop
    proc,                \* history: what happened to the worker a loop processes
    tick_log,            \* history: <<step_count, batch>> of every tick
    \* --- StanfordPlanner
    plan_inflight,       \* requests of _call_llm that await the backend's response
    plan_sent            \* history: requests _call_llm has sent

rlVars == <<now, rpm_limit, tpm_limit, request_timestamps, token_timestamps,
            rl_holder, rl_waiters, rl_pc, rl_est, rl_actual, rl_wake,
            rl_called_at, admit_log, correction_log>>

sanVars == <<action_history, san_raw, san_names, san_out, san_runs>>

engVars == <<llm_provider, eng_holder, eng_waiters, pc, attempt, eng_sleep,
             decision, returned_to, enqueue_order, acquire_order, transports, outcomes, parse_failed,
             prev_backoff, total_tokens, parsed>>

schVars == <<is_running, step_count, num_workers, agents_per_step, decision_cache,
             start_pending, loop_pc, batch, loop_pos, result, proc, tick_log>>

planVars == <<plan_inflight, plan_sent>>

\* What the limiter's own steps leave alone.
notRL == <<sanVars, engVars, schVars, planVars>>

vars == <<rlVars, sanVars, engVars, schVars, planVars>>

\* ------------------------------------------------------------ list helpers
RECURSIVE SumCosts(_)
\* sum(t[0] for t in token_timestamps)
SumCosts(s) ==
    IF s = <<>> THEN 0 ELSE Head(s)[1] + SumCosts(Tail(s))

\* [t for t in request_timestamps if now - t < 60]
PruneRequests(rts, t) ==
    SelectSeq(rts, LAMBDA x : t - x < WindowTicks)

\* [t for t in token_timestamps if now - t[1] < 60]
PruneTokens(tts, t) ==
    SelectSeq(tts, LAMBDA x : t - x[2] < WindowTicks)

\* ------------------------------------------------------------------ strings
UpperAlphabet == "ABCDEFGHIJKLMNOPQRSTUVWXYZ"
LowerAlphabet == "abcdefghijklmnopqrstuvwxyz"

LowerChar(ch) ==
    IF \E i \in 1..Len(UpperAlphabet) : SubSeq(UpperAlphabet, i, i) = ch
    THEN LET i == CHOOSE k \in 1..Len(UpperAlphabet) : SubSeq(UpperAlphabet, k, k) = ch
         IN  SubSeq(LowerAlphabet, i, i)
    ELSE ch

RECURSIVE Lower(_)
\* str.lower()
Lower(s) ==
    IF Len(s) = 0 THEN ""
    ELSE LowerChar(SubSeq(s, 1, 1)) \o Lower(SubSeq(s, 2, Len(s)))

\* Python's "a in b" on two strings: a is a substring of b.
Contains(a, b) ==
    \/ Len(a) = 0
    \/ \E i \in 1..(Len(b) - Len(a) + 1) : SubSeq(b, i, i + Len(a) - 1) = a

\* target.lower() in name.lower() or name.lower() in target.lower()
FuzzyMatch(a, b) ==
    Contains(Lower(a), Lower(b)) \/ Contains(Lower(b), Lower(a))

\* ------------------------------------------------------- Decision dictionaries
\* A value of the JSON dictionary the transport returned: a string, a missing
\* key, null, or a number (truthy and not a string).
Str(s) == <<"str", s>>
Absent == <<"absent">>
Null == <<"null">>
Number == <<"number">>
IsStr(v) == v[1] = "str"
StrOf(v) == v[2]
\* How an f-string renders a value.
Render(v) == IF IsStr(v) THEN StrOf(v) ELSE "5"

\* No dictionary at all (nothing was returned).
NoDecision == [thought |-> Absent, action |-> Absent, target |-> Absent,
               dialogue |-> Absent]

\* valid_actions, as the list and as a set
ValidActionsList == <<"move", "talk", "work", "rest">>
ValidActions == {ValidActionsList[i] : i \in DOMAIN ValidActionsList}
\* The names step 3 takes for a person.
PersonKeywords == {"vikram", "ananya", "tara", "priya", "dr.", "cdr."}
\* locations of step 5
DiversifyLocations == <<"Mess Hall", "Rec Room", "Medical Bay", "Crew Quarters">>
\* What random.choice may return: an index into a list of 3 alternative
\* actions and an index into the 4 locations.
ActionDraws == 1..3
LocationDraws == DOMAIN DiversifyLocations
\* The history keeps its last 10 entries.
HistoryCap == 10

\* lst[-n:]
LastN(lst, n) ==
    IF Len(lst) <= n THEN lst ELSE SubSeq(lst, Len(lst) - n + 1, Len(lst))

\* An exception leaves _sanitize_response: nothing is returned.
SanRaise(st) == [st EXCEPT !.raised = TRUE]

\* result["thought"] += note: KeyError without the key, TypeError on a non-string.
AppendThought(st, note) ==
    IF IsStr(st.result.thought)
    THEN [st EXCEPT !.result.thought = Str(StrOf(st.result.thought) \o note)]
    ELSE SanRaise(st)

\* if "thought" in result: result["thought"] += " (note)" else: result["thought"] = "note"
AppendOrSetThought(st, note) ==
    IF st.result.thought = Absent
    THEN [st EXCEPT !.result.thought = Str(note)]
    ELSE AppendThought(st, " (" \o note \o ")")

\* action = result.get("action", "rest").lower(); target = result.get("target", "") or ""
SanStart(raw) ==
    IF raw.action # Absent /\ ~IsStr(raw.action)
    THEN [raised |-> TRUE, result |-> raw, action |-> "", target |-> Str("")]
    ELSE [raised |-> FALSE,
          result |-> raw,
          action |-> IF raw.action = Absent THEN "rest" ELSE Lower(StrOf(raw.action)),
          target |-> IF raw.target \in {Absent, Null} THEN Str("") ELSE raw.target]

SanValidateActionMutant(st) ==
    IF st.raised \/ st.action \in ValidActions THEN st
    ELSE AppendThought([st EXCEPT !.result.action = Str("work"), !.action = "work"],
                       " (Corrected from check)")

\* 1. Validate Action
SanValidateAction(st) ==
    IF st.raised \/ st.action \in ValidActions THEN st
    ELSE IF st.action = "check"
         THEN AppendThought([st EXCEPT !.result.action = Str("work"), !.action = "work"],
                            " (Corrected from check)")
         ELSE AppendThought([st EXCEPT !.result.action = Str("rest"), !.action = "rest"],
                            " (Invalid action 'rest' corrected)")

\* 2. Prevent Ghost Talking
SanGhostTalk(st, valid_names) ==
    IF st.raised \/ st.action # "talk" THEN st
    ELSE IF valid_names # <<>> /\ ~IsStr(st.target) THEN SanRaise(st)
    ELSE IF \E i \in 1..Len(valid_names) : FuzzyMatch(StrOf(st.target), valid_names[i])
         THEN st
         ELSE AppendThought([st EXCEPT !.result.action = Str("work"), !.action = "work",
                                       !.result.target = Str("station duties")],
                            " (Target '" \o Render(st.target) \o "' not found, working instead)")

\* 3. Fix 'Work on Person'
SanWorkOnPerson(st) ==
    IF st.raised \/ st.action # "work" THEN st
    ELSE IF ~IsStr(st.target) THEN SanRaise(st)
    ELSE IF \E x \in PersonKeywords : Contains(x, Lower(StrOf(st.target)))
         THEN AppendThought([st EXCEPT !.result.action = Str("talk"), !.action = "talk"],
                            " (Changed work-on-person to talk)")
         ELSE st

\* The talk entries among the last 3 of the history whose target matches.
MatchingTalks(history, target_lower) ==
    {i \in DOMAIN LastN(history, 3) :
        LET h == LastN(history, 3)[i]
            t == Lower(StrOf(h.target))
        IN  /\ h.action = "talk"
            /\ t # "" /\ target_lower # ""
            /\ (Contains(t, target_lower) \/ Contains(target_lower, t))}

SanTalkLoopMutant(st, history) ==
    IF st.raised \/ st.action # "talk" THEN st
    ELSE IF Cardinality(MatchingTalks(history, Lower(StrOf(st.target)))) >= 3
         THEN AppendOrSetThought([st EXCEPT !.result.action = Str("work"), !.action = "work",
                                            !.result.target = Str("regular duties")],
                                 "Breaking conversation loop - time to work")
         ELSE st

\* 4. ANTI-REPETITION: Check for talk loops
SanTalkLoop(st, history) ==
    IF st.raised \/ st.action # "talk" THEN st
    ELSE IF \/ \E i \in DOMAIN LastN(history, 3) :
                  LastN(history, 3)[i].action = "talk" /\ ~IsStr(LastN(history, 3)[i].target)
            \/ ~IsStr(st.target)
         THEN SanRaise(st)
    ELSE IF Cardinality(MatchingTalks(history, Lower(StrOf(st.target)))) >= 2
         THEN AppendOrSetThought([st EXCEPT !.result.action = Str("work"), !.action = "work",
                                            !.result.target = Str("regular duties")],
                                 "Breaking conversation loop - time to work")
         ELSE st

StuckMutant(st, history) ==
    /\ ~st.raised
    /\ Len(history) >= 5
    /\ \A i \in DOMAIN LastN(history, 4) : LastN(history, 4)[i].action = st.action

\* Whether step 5 draws at random: the last 4 entries all have this action.
Stuck(st, history) ==
    /\ ~st.raised
    /\ Len(history) >= 4
    /\ \A i \in DOMAIN LastN(history, 4) : LastN(history, 4)[i].action = st.action

AlternativeActionsMutant(action) ==
    SubSeq(ValidActionsList, 1, Len(ValidActionsList) - 1)

\* alternative_actions = [a for a in valid_actions if a != action]
AlternativeActions(action) ==
    SelectSeq(ValidActionsList, LAMBDA a : a # action)

\* The target step 5 synthesizes for the action it drew ("talk" gets none).
DiversifiedTarget(st, new_action, location) ==
    CASE new_action = "move" -> Str(location)
      [] new_action = "work" -> Str("station systems")
      [] new_action = "rest" -> Str("self")
      [] OTHER -> st.result.target

\* 5. ANTI-REPETITION: Force diversity if stuck; draw and place are what the
\* two random.choice calls pick.
SanDiversify(st, history, draw, place) ==
    IF Stuck(st, history)
    THEN LET new_action == AlternativeActions(st.action)[draw]
             noted == AppendOrSetThought(
                          [st EXCEPT !.result.action = Str(new_action)],
                          "Diversified from " \o st.action \o " pattern")
         IN  IF noted.raised THEN noted
             ELSE [noted EXCEPT !.action = new_action,
                                !.result.target =
                                    DiversifiedTarget(st, new_action,
                                                      DiversifyLocations[place])]
    ELSE st

SanRecordMutant(st, history) ==
    LastN(Append(history, [action |-> st.action, target |-> st.target]), HistoryCap)

\* 6. Record this action in history (keep last 10)
SanRecord(st, history) ==
    IF st.raised THEN history
    ELSE LastN(Append(history, [action |-> st.action, target |-> st.target]), HistoryCap)

\* _sanitize_response(result, agent, context): every outcome it can have, one
\* for each pair of random draws that step 5 makes (none unless it is stuck):
\* what it returns (or that it raised) and the agent's history afterwards.
SanitizeResponse(raw, history, valid_names) ==
    LET s1 == SanValidateAction(SanStart(raw))
        s2 == SanGhostTalk(s1, valid_names)
        s3 == SanWorkOnPerson(s2)
        s4 == SanTalkLoop(s3, history)
        draws == IF Stuck(s4, history) THEN ActionDraws \X LocationDraws
                 ELSE {<<1, 1>>}
    IN  {LET s5 == SanDiversify(s4, history, d[1], d[2])
         IN  [raised |-> s5.raised,
              result |-> IF s5.raised THEN NoDecision ELSE s5.result,
              history |-> SanRecord(s5, history)] : d \in draws}

\* ------------------------------------------------------------ asyncio.Lock
LockFreeMutant(holder, waiters) ==
    waiters = <<>>

\* acquire() succeeds at once only when the lock is free and nobody waits.
LockFree(holder, waiters) ==
    holder = Unlocked /\ waiters = <<>>

LostWakeupMutant(waiters) == Unlocked

ReleasedHolderMutant(waiters) ==
    IF waiters = <<>> THEN Unlocked ELSE {waiters[Len(waiters)]}

\* release(): the lock passes to the first waiter, if any.
ReleasedHolder(waiters) ==
    IF waiters = <<>> THEN Unlocked ELSE {Head(waiters)}

ReleasedWaiters(waiters) ==
    IF waiters = <<>> THEN <<>> ELSE Tail(waiters)

\* -------------------------------------------------------------- RateLimiter
RpmHitMutant(rts, rpm) ==
    Len(rts) > rpm

\* 2. Check RPM: len(self.request_timestamps) >= self.rpm_limit
RpmHit(rts, rpm) ==
    Len(rts) >= rpm

\* 3. Check TPM: current_tokens + estimated_tokens > self.tpm_limit
TpmHit(tts, est, tpm) ==
    SumCosts(tts) + est > tpm

\* One pass of the while-True body of wait_for_capacity at time t: the pruned
\* ledgers and what the pass ends in: "sleep" (until wake), "admit" or "raise"
\* (request_timestamps[0] on an empty list).
WaitForCapacityPass(rts0, tts0, t, rpm, tpm, est) ==
    LET rts == PruneRequests(rts0, t)
        tts == PruneTokens(tts0, t)
        admit == [rts |-> Append(rts, t), tts |-> Append(tts, <<est, t>>),
                  outcome |-> "admit", wake |-> 0]
        tpmCheck ==
            IF TpmHit(tts, est, tpm) /\ tts # <<>>
               /\ WindowTicks - (t - tts[1][2]) + Epsilon > 0
            THEN [rts |-> rts, tts |-> tts, outcome |-> "sleep",
                  wake |-> t + WindowTicks - (t - tts[1][2]) + Epsilon]
            ELSE admit
    IN  IF RpmHit(rts, rpm)
        THEN IF rts = <<>>
             THEN [rts |-> rts, tts |-> tts, outcome |-> "raise", wake |-> 0]
             ELSE IF WindowTicks - (t - rts[1]) + Epsilon > 0
                  THEN [rts |-> rts, tts |-> tts, outcome |-> "sleep",
                        wake |-> t + WindowTicks - (t - rts[1]) + Epsilon]
                  ELSE tpmCheck
        ELSE tpmCheck

\* The caller c, holding RateLimiter.lock, runs one pass of the loop.
RLPass(c, est, issued) ==
    LET r == WaitForCapacityPass(request_timestamps, token_timestamps, now,
                                 rpm_limit, tpm_limit, est)
    IN  /\ request_timestamps' = r.rts
        /\ token_timestamps' = r.tts
        /\ rl_wake' = [rl_wake EXCEPT ![c] = r.wake]
        /\ rl_called_at' = [rl_called_at EXCEPT ![c] =
                                IF r.outcome = "sleep" THEN issued ELSE 0]
        /\ admit_log' = IF r.outcome = "admit"
                        THEN Append(admit_log, <<issued, now>>)
                        ELSE admit_log
        /\ rl_pc' = [rl_pc EXCEPT ![c] =
                        CASE r.outcome = "admit" -> "admitted"
                          [] r.outcome = "sleep" -> "sleeping"
                          [] OTHER -> "raised"]
        \* "async with self.lock" releases on return and on the exception
        /\ IF r.outcome = "sleep"
           THEN /\ rl_holder' = {c}
                /\ rl_waiters' = rl_waiters
           ELSE /\ rl_holder' = ReleasedHolder(rl_waiters)
                /\ rl_waiters' = ReleasedWaiters(rl_waiters)

\* await rate_limiter.wait_for_capacity(est), called at time now: up to the
\* first await that suspends.
RLEnter(c, est) ==
    /\ rl_est' = [rl_est EXCEPT ![c] = est]
    /\ IF LockFree(rl_holder, rl_waiters)
       THEN RLPass(c, est, now)
       ELSE /\ rl_pc' = [rl_pc EXCEPT ![c] = "lockwait"]
            /\ rl_waiters' = Append(rl_waiters, c)
            /\ rl_called_at' = [rl_called_at EXCEPT ![c] = now]
            /\ UNCHANGED <<request_timestamps, token_timestamps, rl_holder,
                           rl_wake, admit_log>>
    /\ UNCHANGED <<now, rpm_limit, tpm_limit, rl_actual, correction_log>>

\* A caller that only uses the limiter calls wait_for_capacity.
RLCall(c, est) ==
    /\ rl_pc[c] = "idle"
    /\ RLEnter(c, est)
    /\ UNCHANGED notRL

\* A waiter that was handed the lock resumes and runs its first pass.
RLGranted(c) ==
    /\ rl_pc[c] = "lockwait"
    /\ rl_holder = {c}
    /\ RLPass(c, rl_est[c], rl_called_at[c])
    /\ UNCHANGED <<now, rpm_limit, tpm_limit, rl_est, rl_actual,
                   correction_log>>
    /\ UNCHANGED notRL

\* asyncio.sleep(wait_time) is over; "continue" runs the next pass.
RLWake(c) ==
    /\ rl_pc[c] = "sleeping"
    /\ now >= rl_wake[c]
    /\ RLPass(c, rl_est[c], rl_called_at[c])
    /\ UNCHANGED <<now, rpm_limit, tpm_limit, rl_est, rl_actual,
                   correction_log>>
    /\ UNCHANGED notRL

UpdateActualUsageMutant(tts, estimated, actual, t) ==
    IF actual # estimated THEN Append(tts, <<actual - estimated, t>>) ELSE tts

\* The body of update_actual_usage, run while holding the lock.
UpdateActualUsage(tts, estimated, actual, t) ==
    IF actual > estimated THEN Append(tts, <<actual - estimated, t>>) ELSE tts

RLUpdateBody(c, actual) ==
    /\ token_timestamps' = UpdateActualUsage(token_timestamps, rl_est[c], actual, now)
    /\ correction_log' = IF actual > rl_est[c]
                         THEN Append(correction_log, <<actual - rl_est[c], now>>)
                         ELSE correction_log
    /\ rl_pc' = [rl_pc EXCEPT ![c] = "done"]

\* await rate_limiter.update_actual_usage(est, actual) by an admitted caller.
RLUpdateCall(c, actual) ==
    /\ rl_pc[c] = "admitted"
    /\ rl_actual' = [rl_actual EXCEPT ![c] = actual]
    /\ IF LockFree(rl_holder, rl_waiters)
       THEN /\ RLUpdateBody(c, actual)
            /\ UNCHANGED <<rl_holder, rl_waiters>>
       ELSE /\ rl_pc' = [rl_pc EXCEPT ![c] = "updwait"]
            /\ rl_waiters' = Append(rl_waiters, c)
            /\ UNCHANGED <<token_timestamps, correction_log, rl_holder>>
    /\ UNCHANGED <<now, rpm_limit, tpm_limit, request_timestamps, rl_est,
                   rl_wake, rl_called_at, admit_log>>
    /\ UNCHANGED notRL

RLUpdateGranted(c) ==
    /\ rl_pc[c] = "updwait"
    /\ rl_holder = {c}
    /\ RLUpdateBody(c, rl_actual[c])
    /\ rl_holder' = ReleasedHolder(rl_waiters)
    /\ rl_waiters' = ReleasedWaiters(rl_waiters)
    /\ UNCHANGED <<now, rpm_limit, tpm_limit, request_timestamps, rl_est,
                   rl_actual, rl_wake, rl_called_at, admit_log>>
    /\ UNCHANGED notRL

\* Wall-clock time passes.
Advance(d) ==
    /\ now + d <= MaxTime * TicksPerSecond
    /\ now' = now + d
    /\ UNCHANGED <<rpm_limit, tpm_limit, request_timestamps, token_timestamps,
                   rl_holder, rl_waiters, rl_pc, rl_est, rl_actual, rl_wake,
                   rl_called_at, admit_log, correction_log>>
    /\ UNCHANGED notRL

\* RateLimiter.__init__ with any limits; nothing admitted yet.
RLInit ==
    /\ now = 0
    /\ rpm_limit \in 0..MaxRpm
    /\ tpm_limit \in TpmLimits
    /\ request_timestamps = <<>>
    /\ token_timestamps = <<>>
    /\ rl_holder = Unlocked
    /\ rl_waiters = <<>>
    /\ rl_pc = [c \in Callers |-> "idle"]
    /\ rl_est = [c \in Callers |-> 0]
    /\ rl_actual = [c \in Callers |-> 0]
    /\ rl_wake = [c \in Callers |-> 0]
    /\ rl_called_at = [c \in Callers |-> 0]
    /\ admit_log = <<>>
    /\ correction_log = <<>>

\* The limiter of a run that never calls it: the 70b configuration, unused.
RLIdle ==
    /\ now = 0
    /\ rpm_limit = 5
    /\ tpm_limit = 4000
    /\ request_timestamps = <<>>
    /\ token_timestamps = <<>>
    /\ rl_holder = Unlocked
    /\ rl_waiters = <<>>
    /\ rl_pc = [c \in Callers |-> "idle"]
    /\ rl_est = [c \in Callers |-> 0]
    /\ rl_actual = [c \in Callers |-> 0]
    /\ rl_wake = [c \in Callers |-> 0]
    /\ rl_called_at = [c \in Callers |-> 0]
    /\ admit_log = <<>>
    /\ correction_log = <<>>

\* -------------------------------------------------- RateLimiter: properties
\* The admissions that fall in the 60 s window ending at admission i.
AdmittedInWindow(i) ==
    {j \in 1..Len(admit_log) :
        /\ admit_log[j][2] <= admit_log[i][2]
        /\ admit_log[i][2] - admit_log[j][2] < WindowTicks}

\* The reservations younger than 60 s and what they sum to.
YoungTokenSum ==
    SumCosts(PruneTokens(token_timestamps, now))

\* --------------------------------------------------- the sanitizer, stepwise
\* The agent whose decisions are sanitized; histories of different agents
\* are separate entries of action_history.
AgentNames == <<"TARA", "Dr. Ananya Iyer", "Cdr. Vikram Sharma", "Priya Nair",
                "Kabir Saxena">>
\* agent["name"] of the agent caller c reasons for
AgentOf(c) == AgentNames[c]
SanAgent == AgentOf(1)
Agents == {AgentOf(c) : c \in Callers}

\* The dictionaries the sanitizer is given.
RawActions == {Str("move"), Str("talk"), Str("work"), Str("rest"), Str("fly"),
               Str("check"), Str("Talk"), Absent, Null}
RawTargets == {Str(""), Str("Dr. Ananya Iyer"), Str("ananya"), Str("Dr. Ghost"),
               Str("Kabir Saxena"), Str("roof"), Null, Number}
RawThoughts == {Str("why"), Absent}
RawDialogues == {Null, Str("hello")}
RawDecisions ==
    [thought : RawThoughts, action : RawActions, target : RawTargets,
     dialogue : RawDialogues]
\* context["all_agent_names"]: the crew, or nothing (the default of .get).
Rosters == {<<"Dr. Ananya Iyer", "TARA", "Kabir Saxena">>, <<>>}

SanInit ==
    /\ action_history = [a \in Agents |-> <<>>]
    /\ san_raw = NoDecision
    /\ san_names = <<>>
    /\ san_out = [raised |-> FALSE, result |-> NoDecision]
    /\ san_runs = 0

\* The body of _sanitize_response(raw, agent, context).
SanitizeCall(agent, raw, valid_names) ==
    /\ \E r \in SanitizeResponse(raw, action_history[agent], valid_names) :
          /\ san_out' = [raised |-> r.raised, result |-> r.result]
          /\ action_history' = [action_history EXCEPT ![agent] = r.history]
    /\ san_runs' = san_runs + 1
    /\ san_raw' = raw
    /\ san_names' = valid_names
    /\ UNCHANGED <<rlVars, engVars, schVars, planVars>>

\* One call _sanitize_response(raw, agent, context).
SanitizeRun(agent, raw, valid_names) ==
    /\ san_runs < MaxSanRuns
    /\ SanitizeCall(agent, raw, valid_names)

\* The decisions an agent makes tick after tick: well-formed ones, as the
\* prompt asks for them, about a crew member or about nobody.
HistoryTargets == {Str(""), Str("ananya")}
HistoryRaws ==
    [thought : {Str("why")}, action : {Str(a) : a \in ValidActions},
     target : HistoryTargets, dialogue : {Null}]
\* context["all_agent_names"] as _run_parl_step builds it: the whole crew.
CrewRoster == <<"Dr. Ananya Iyer", "TARA", "Kabir Saxena">>

\* One more decision of the same agent goes through the sanitizer.
HistoryRun(raw) ==
    /\ san_runs < MaxHistory
    /\ SanitizeCall(SanAgent, raw, CrewRoster)

\* -------------------------------------------------------- PARLEngine.reason
\* for attempt in range(3)
MaxAttempts == 3
\* usage.get("total_tokens", 600): the default
DefaultTokens == 600
\* The total_tokens a Groq response reports: fewer than the 600 reserved,
\* as many, more. _call_ollama reads no usage.
TokenUsages(provider) ==
    IF provider = "ollama" THEN {DefaultTokens}
    ELSE {DefaultTokens - 300, DefaultTokens, DefaultTokens + 300}
\* asyncio.sleep(random.uniform(0.5, 1.5)): the shortest and the longest jitter
JitterTicks == {TicksPerSecond \div 2, TicksPerSecond + TicksPerSecond \div 2}
\* asyncio.sleep(5.0 * (attempt + 1))
RateLimitBackoff(k) == 5 * (k + 1) * TicksPerSecond
\* asyncio.sleep(1)
ErrorBackoff == TicksPerSecond

\* The states of a call that is inside "async with self.lock".
Inside == {"admission", "jitter", "transport", "backoff"}

UsesLimiterMutant(provider) == provider \in {"ollama", "groq"}

\* if self.llm_provider != "ollama" and self.rate_limiter
UsesLimiter(provider) == provider # "ollama"

\* context["all_agent_names"]: the names of the crew
EngineRoster == [c \in Callers |-> AgentOf(c)]

\* _fallback_decision: actions, and targets per action
FallbackActions == {"work", "rest", "move"}
FallbackTargets(action) ==
    CASE action = "work" -> {"station systems", "research", "maintenance"}
      [] action = "rest" -> {"self"}
      [] action = "move" -> {"Mess Hall", "Crew Quarters", "Rec Room", "Medical Bay"}
FallbackDecisionsMutant ==
    {[thought |-> Str("I should continue my routine."), action |-> Str("work"),
      target |-> Null, dialogue |-> Null]}

\* Every dictionary _fallback_decision can return.
FallbackDecisions ==
    UNION {{[thought |-> Str("I should continue my routine."), action |-> Str(a),
             target |-> Str(t), dialogue |-> Null] : t \in FallbackTargets(a)} :
           a \in FallbackActions}

\* What the model answers with: a well-formed decision, one whose action is
\* null (the sanitizer raises on it), and the empty dictionary.
WellFormedRaw == [thought |-> Str("why"), action |-> Str("rest"),
                  target |-> Str("self"), dialogue |-> Null]
MalformedRaw == [thought |-> Str("why"), action |-> Null,
                 target |-> Str("self"), dialogue |-> Null]
ReasonRaws == {WellFormedRaw, MalformedRaw, NoDecision}

\* How a transport invocation ends. _call_ollama catches everything and
\* returns the parsed dictionary or None; _call_groq also raises: "Rate Limit
\* Exceeded" on status 429, and whatever httpx or the payload lookup raise.
\* None is returned for a status that is neither 200 nor 429 ("none") and for
\* a text _parse_response finds no JSON object in ("unparsable").
\* A response with status 200 carries the usage the backend reports;
\* tokens is what usage.get("total_tokens", 600) reads from it.
TransportResults(provider) ==
    {[kind |-> "dict", raw |-> raw, tokens |-> n] :
        raw \in ReasonRaws, n \in TokenUsages(provider)}
    \cup {[kind |-> "none", raw |-> NoDecision, tokens |-> DefaultTokens],
          [kind |-> "unparsable", raw |-> NoDecision, tokens |-> DefaultTokens]}
    \cup (IF provider = "ollama" THEN {}
          ELSE {[kind |-> "raise429", raw |-> NoDecision, tokens |-> DefaultTokens],
                [kind |-> "raise", raw |-> NoDecision, tokens |-> DefaultTokens]})

\* "if result:": None and the empty dictionary are falsy.
Truthy(res) == res.kind = "dict" /\ res.raw # NoDecision

\* The loop state of call c after a step.
LoopStep(c, where, k, sleep, began) ==
    /\ pc' = [pc EXCEPT ![c] = where]
    /\ attempt' = [attempt EXCEPT ![c] = k]
    /\ eng_sleep' = [eng_sleep EXCEPT ![c] = sleep]
    /\ transports' = [transports EXCEPT ![c] = @ + began]

\* Where the call goes once wait_for_capacity has run as far as it can:
\* admitted, it sleeps the jitter; suspended in the limiter, it stays there;
\* an exception of the limiter is caught by reason() like any other.
AfterAdmission(c, k) ==
    \E jitter \in JitterTicks :
        CASE rl_pc'[c] = "admitted" -> LoopStep(c, "jitter", k, jitter, 0)
          [] rl_pc'[c] = "raised" -> LoopStep(c, "backoff", k, ErrorBackoff, 0)
          [] OTHER -> LoopStep(c, "admission", k, 0, 0)

StartAttemptMutant(c, k) ==
    IF UsesLimiter(llm_provider) /\ k = 0
    THEN /\ RLEnter(c, EstimatedUsage)
         /\ AfterAdmission(c, k)
    ELSE /\ LoopStep(c, "transport", k, 0, 1)
         /\ UNCHANGED rlVars

\* The top of iteration k of the loop, up to the first await that suspends:
\* the admission of the limiter for groq, the transport call for ollama.
StartAttempt(c, k) ==
    IF UsesLimiter(llm_provider)
    THEN /\ RLEnter(c, EstimatedUsage)
         /\ AfterAdmission(c, k)
    ELSE /\ LoopStep(c, "transport", k, 0, 1)
         /\ UNCHANGED rlVars

\* The except branch: sleep, still holding the lock.
Fail(c, sleep) ==
    /\ LoopStep(c, "backoff", attempt[c], sleep, 0)
    /\ UNCHANGED rlVars

\* return: the lock is released and the caller gets the dictionary d.
Finish(c, d, how) ==
    /\ pc' = [pc EXCEPT ![c] = "returned"]
    /\ eng_sleep' = [eng_sleep EXCEPT ![c] = 0]
    /\ decision' = d
    /\ returned_to' = {c}
    /\ outcomes' = [outcomes EXCEPT ![c] = how]
    /\ eng_holder' = ReleasedHolder(eng_waiters)
    /\ eng_waiters' = ReleasedWaiters(eng_waiters)
    /\ UNCHANGED <<enqueue_order, acquire_order, attempt, transports, rlVars>>

\* The end of an iteration that returned nothing: the next one, or after the
\* last the lock is released and _fallback_decision is returned.
NextIteration(c) ==
    IF attempt[c] + 1 < MaxAttempts
    THEN /\ StartAttempt(c, attempt[c] + 1)
         /\ UNCHANGED <<eng_holder, eng_waiters, enqueue_order, acquire_order,
                        decision, returned_to, outcomes>>
    ELSE \E d \in FallbackDecisions : Finish(c, d, "fallback")

\* reason(agent, context) is called: the prompt is built (which may raise,
\* outside the try) and the call reaches "async with self.lock".
ReasonCall(c, prompt_ok) ==
    /\ pc[c] = "idle"
    /\ IF ~prompt_ok
       THEN /\ pc' = [pc EXCEPT ![c] = "raised"]
            /\ UNCHANGED <<attempt, eng_sleep, transports, eng_holder, eng_waiters,
                           enqueue_order, acquire_order, rlVars>>
       ELSE IF LockFree(eng_holder, eng_waiters)
            THEN /\ eng_holder' = {c}
                 /\ enqueue_order' = Append(enqueue_order, c)
                 /\ acquire_order' = Append(acquire_order, c)
                 /\ StartAttempt(c, 0)
                 /\ UNCHANGED eng_waiters
            ELSE /\ pc' = [pc EXCEPT ![c] = "lockwait"]
                 /\ eng_waiters' = Append(eng_waiters, c)
                 /\ enqueue_order' = Append(enqueue_order, c)
                 /\ UNCHANGED <<attempt, eng_sleep, transports, eng_holder,
                                acquire_order, rlVars>>
    /\ UNCHANGED <<llm_provider, parse_failed, prev_backoff, total_tokens, parsed, decision, returned_to, outcomes, sanVars, schVars, planVars>>

\* A waiting call was handed the lock and enters the loop.
ReasonGranted(c) ==
    /\ pc[c] = "lockwait"
    /\ eng_holder = {c}
    /\ acquire_order' = Append(acquire_order, c)
    /\ StartAttempt(c, 0)
    /\ UNCHANGED <<llm_provider, parse_failed, prev_backoff, total_tokens, parsed, eng_holder, eng_waiters, enqueue_order, decision,
                   returned_to, outcomes, sanVars, schVars, planVars>>

\* The call suspended in wait_for_capacity goes on: its sleep is over (or it
\* was handed the limiter's lock) and the loop of the limiter runs again.
ReasonAdmissionResume(c) ==
    /\ pc[c] = "admission"
    /\ \/ rl_pc[c] = "sleeping" /\ now >= rl_wake[c]
       \/ rl_pc[c] = "lockwait" /\ rl_holder = {c}
    /\ RLPass(c, rl_est[c], rl_called_at[c])
    /\ AfterAdmission(c, attempt[c])
    /\ UNCHANGED <<now, rpm_limit, tpm_limit, rl_est, rl_actual, correction_log>>
    /\ UNCHANGED <<llm_provider, parse_failed, prev_backoff, total_tokens, parsed, eng_holder, eng_waiters, enqueue_order,
                   acquire_order, decision, returned_to, outcomes, sanVars, schVars, planVars>>

\* The jitter sleep is over: the transport is invoked.
ReasonJitterDone(c) ==
    /\ pc[c] = "jitter"
    /\ LoopStep(c, "transport", attempt[c], 0, 1)
    /\ UNCHANGED <<llm_provider, parse_failed, prev_backoff, total_tokens, parsed, eng_holder, eng_waiters, enqueue_order,
                   acquire_order, decision, returned_to, outcomes, sanVars, schVars, planVars, rlVars>>

\* The transport invocation ends with res; a truthy result is sanitized and
\* returned, an exception (of the transport or of the sanitizer) is caught.
ReasonTransportDone(c, res) ==
    /\ pc[c] = "transport"
    /\ res \in TransportResults(llm_provider)
    /\ CASE Truthy(res) ->
               \E r \in SanitizeResponse(res.raw, action_history[AgentOf(c)], EngineRoster) :
                   /\ action_history' = [action_history EXCEPT ![AgentOf(c)] = r.history]
                   /\ IF r.raised
                      THEN /\ Fail(c, ErrorBackoff)
                           /\ UNCHANGED <<eng_holder, eng_waiters, enqueue_order,
                                          acquire_order, decision, returned_to, outcomes>>
                      ELSE Finish(c, r.result, "sanitized")
         [] res.kind = "raise429" ->
               /\ Fail(c, RateLimitBackoff(attempt[c]))
               /\ UNCHANGED <<eng_holder, eng_waiters, enqueue_order, acquire_order,
                              decision, returned_to, outcomes, action_history>>
         [] res.kind = "raise" ->
               /\ Fail(c, ErrorBackoff)
               /\ UNCHANGED <<eng_holder, eng_waiters, enqueue_order, acquire_order,
                              decision, returned_to, outcomes, action_history>>
         [] OTHER ->
               /\ NextIteration(c)
               /\ UNCHANGED action_history
    /\ parse_failed' = [parse_failed EXCEPT ![c] = @ \/ res.kind = "unparsable"]
    /\ parsed' = [parsed EXCEPT ![c] = @ \/ res.kind = "dict"]
    /\ total_tokens' = IF res.kind \in {"dict", "unparsable"} THEN res.tokens
                       ELSE total_tokens
    /\ prev_backoff' = [prev_backoff EXCEPT ![c] =
                            IF pc'[c] = "returned" THEN 0
                            ELSE IF res.kind = "raise429" THEN eng_sleep'[c] ELSE @]
    /\ UNCHANGED <<llm_provider, san_raw, san_names, san_out, san_runs, schVars, planVars>>

\* The sleep of the except branch is over.
ReasonBackoffDone(c) ==
    /\ pc[c] = "backoff"
    /\ NextIteration(c)
    /\ prev_backoff' = [prev_backoff EXCEPT ![c] = IF pc'[c] = "returned" THEN 0 ELSE @]
    /\ UNCHANGED <<llm_provider, parse_failed, total_tokens, parsed, sanVars, schVars, planVars>>

\* Time passes until the sleep of a call suspended in the limiter is over.
SleepElapses(c) ==
    /\ rl_pc[c] = "sleeping"
    /\ now < rl_wake[c]
    /\ now' = rl_wake[c]
    /\ UNCHANGED <<rpm_limit, tpm_limit, request_timestamps, token_timestamps,
                   rl_holder, rl_waiters, rl_pc, rl_est, rl_actual, rl_wake,
                   rl_called_at, admit_log, correction_log>>
    /\ UNCHANGED notRL

\* PARLEngine.__init__: nobody holds the lock, no call is in progress.
EngIdle ==
    /\ eng_holder = Unlocked
    /\ eng_waiters = <<>>
    /\ pc = [c \in Callers |-> "idle"]
    /\ attempt = [c \in Callers |-> 0]
    /\ eng_sleep = [c \in Callers |-> 0]
    /\ decision = NoDecision
    /\ returned_to = {}
    /\ enqueue_order = <<>>
    /\ acquire_order = <<>>
    /\ transports = [c \in Callers |-> 0]
    /\ outcomes = [c \in Callers |-> "none"]
    /\ parse_failed = [c \in Callers |-> FALSE]
    /\ prev_backoff = [c \in Callers |-> 0]
    /\ total_tokens = DefaultTokens
    /\ parsed = [c \in Callers |-> FALSE]

\* The engine of a run that never calls reason().
EngUnused ==
    /\ llm_provider = "groq"
    /\ EngIdle

\* The engine with either provider; a limiter exists only for groq.
EngInit ==
    /\ llm_provider \in {"ollama", "groq"}
    /\ EngIdle

\* --------------------------------------------------------- SimulationEngine
\* self.cache_duration = 3
CacheDuration == 3
\* self.agents_per_step = 2
DefaultBatch == 2

\* <<len(self.agents), agents_per_step>>: a batch that divides the agents,
\* one that does not, and one that is larger than the number of agents.
Fleets == {<<1, 1>>, <<2, 1>>, <<2, 2>>, <<1, 2>>, <<3, 2>>, <<3, 1>>}
MaxWorkers == CHOOSE n \in {f[1] : f \in Fleets} : \A f \in Fleets : f[1] <= n

\* The _simulation_loop tasks: the one the first start() creates and the one
\* a start() after a stop() creates.
Loops == {1, 2}
\* Indices into self.agents; a worker's name is the key of its cache entry.
WorkerIds == 0..(MaxWorkers - 1)

\* A cache entry is (decision, step_made); the decision is known by the step
\* it was stored at, and 0 stands for no entry.
NoEntry == 0
\* No worker is being processed.
NoProc == [at |-> 0, before |-> NoEntry, looked |-> FALSE, hit |-> FALSE,
           called |-> FALSE, stored |-> 0, raised |-> FALSE, executed |-> 0]

AgentsToProcessMutant(t, k, n) ==
    [i \in 1..k |-> (((t * k) % n) + (i - 1)) % n]

\* agents_to_process of the tick with step counter t: the indices
\* (start_idx + i) % len(self.agents), start_idx = ((t - 1) * k) % len(self.agents)
AgentsToProcess(t, k, n) ==
    [i \in 1..k |-> ((((t - 1) * k) % n) + (i - 1)) % n]

CacheHitMutant(entry, t) ==
    entry # NoEntry /\ t - entry <= CacheDuration

\* cached and (self.step_count - cached[1]) < self.cache_duration
CacheHit(entry, t) ==
    entry # NoEntry /\ t - entry < CacheDuration

\* The loop l goes on to the worker at position p of its batch b, at step t,
\* up to the first await that suspends: the break when the engine was
\* stopped, the environment lookup, the cache lookup and, on a miss, the part
\* of _run_parl_step before reason(). pre says what raises on the way:
\* "env" the environment lookup, "perceive" the part before reason().
WorkerBegin(l, b, p, t, pre) ==
    IF p > Len(b) \/ ~is_running
    THEN \* the batch is over: the state_update broadcast and the sleep
         /\ loop_pc' = [loop_pc EXCEPT ![l] = "sleep"]
         /\ loop_pos' = [loop_pos EXCEPT ![l] = 0]
         /\ result' = [result EXCEPT ![l] = NoEntry]
         /\ proc' = [proc EXCEPT ![l] = NoProc]
    ELSE LET entry == decision_cache[b[p]]
             seen == [NoProc EXCEPT !.at = t, !.before = entry]
         IN  /\ loop_pos' = [loop_pos EXCEPT ![l] = p]
             /\ CASE pre = "env" ->
                       /\ loop_pc' = [loop_pc EXCEPT ![l] = "next"]
                       /\ result' = [result EXCEPT ![l] = NoEntry]
                       /\ proc' = [proc EXCEPT ![l] = [seen EXCEPT !.raised = TRUE]]
                  [] pre # "env" /\ CacheHit(entry, t) ->
                       /\ loop_pc' = [loop_pc EXCEPT ![l] = "post"]
                       /\ result' = [result EXCEPT ![l] = entry]
                       /\ proc' = [proc EXCEPT ![l] =
                                      [seen EXCEPT !.looked = TRUE, !.hit = TRUE]]
                  [] pre = "perceive" /\ ~CacheHit(entry, t) ->
                       /\ loop_pc' = [loop_pc EXCEPT ![l] = "next"]
                       /\ result' = [result EXCEPT ![l] = NoEntry]
                       /\ proc' = [proc EXCEPT ![l] =
                                      [seen EXCEPT !.looked = TRUE, !.raised = TRUE]]
                  [] OTHER ->
                       /\ loop_pc' = [loop_pc EXCEPT ![l] = "reason"]
                       /\ result' = [result EXCEPT ![l] = NoEntry]
                       /\ proc' = [proc EXCEPT ![l] =
                                      [seen EXCEPT !.looked = TRUE, !.called = TRUE]]

PreOutcomes == {"ok", "env", "perceive"}

\* start(): nothing happens when running; else the flag is set, the agents
\* are created and the plans are generated (which awaits).
StartCall ==
    /\ ~is_running
    /\ Cardinality({l \in Loops : loop_pc[l] # "idle"}) + start_pending
           < Cardinality(Loops)
    /\ is_running' = TRUE
    /\ start_pending' = start_pending + 1
    /\ UNCHANGED <<step_count, num_workers, agents_per_step, decision_cache,
                   loop_pc, batch, loop_pos, result, proc, tick_log>>
    /\ UNCHANGED <<rlVars, sanVars, engVars, planVars>>

\* The end of _generate_stanford_plans: asyncio.create_task(self._simulation_loop())
StartSpawn(l) ==
    /\ start_pending > 0
    /\ loop_pc[l] = "idle"
    /\ \A m \in Loops : m < l => loop_pc[m] # "idle"
    /\ start_pending' = start_pending - 1
    /\ loop_pc' = [loop_pc EXCEPT ![l] = "spawned"]
    /\ UNCHANGED <<is_running, step_count, num_workers, agents_per_step,
                   decision_cache, batch, loop_pos, result, proc, tick_log>>
    /\ UNCHANGED <<rlVars, sanVars, engVars, planVars>>

\* stop()
Stop ==
    /\ is_running
    /\ is_running' = FALSE
    /\ UNCHANGED <<step_count, num_workers, agents_per_step, decision_cache,
                   start_pending, loop_pc, batch, loop_pos, result, proc, tick_log>>
    /\ UNCHANGED <<rlVars, sanVars, engVars, planVars>>

\* A loop task starts, or its inter-tick sleep is over: "while self.is_running",
\* the step counter, the batch, and the first worker of the batch.
LoopTick(l, pre) ==
    /\ loop_pc[l] \in {"spawned", "sleep"}
    /\ IF is_running
       THEN /\ step_count < MaxSteps
            /\ step_count' = step_count + 1
            /\ batch' = [batch EXCEPT ![l] =
                             AgentsToProcess(step_count', agents_per_step, num_workers)]
            /\ tick_log' = Append(tick_log, <<step_count', batch'[l]>>)
            /\ WorkerBegin(l, batch'[l], 1, step_count', pre)
       ELSE /\ loop_pc' = [loop_pc EXCEPT ![l] = "exited"]
            /\ UNCHANGED <<step_count, batch, tick_log, loop_pos, result, proc>>
    /\ UNCHANGED <<is_running, num_workers, agents_per_step, decision_cache,
                   start_pending>>
    /\ UNCHANGED <<rlVars, sanVars, engVars, planVars>>

\* The state_update broadcast after the batch is outside the try: an
\* exception of the callback ends the loop task.
LoopCrash(l) ==
    /\ loop_pc[l] = "sleep"
    /\ loop_pc' = [loop_pc EXCEPT ![l] = "exited"]
    /\ UNCHANGED <<is_running, step_count, num_workers, agents_per_step,
                   decision_cache, start_pending, batch, loop_pos, result, proc,
                   tick_log>>
    /\ UNCHANGED <<rlVars, sanVars, engVars, planVars>>

\* The for loop goes on to the next worker of the batch.
LoopNext(l, pre) ==
    /\ loop_pc[l] = "next"
    /\ WorkerBegin(l, batch[l], loop_pos[l] + 1, step_count, pre)
    /\ UNCHANGED <<is_running, step_count, num_workers, agents_per_step,
                   decision_cache, start_pending, batch, tick_log>>
    /\ UNCHANGED <<rlVars, sanVars, engVars, planVars>>

LoopReasonDoneMutant(l, ok) ==
    /\ loop_pc[l] = "reason"
    /\ IF ok /\ is_running
       THEN /\ decision_cache' = [decision_cache EXCEPT ![batch[l][loop_pos[l]]] =
                                      step_count]
            /\ result' = [result EXCEPT ![l] = step_count]
            /\ proc' = [proc EXCEPT ![l].stored = step_count]
            /\ loop_pc' = [loop_pc EXCEPT ![l] = "post"]
       ELSE /\ proc' = [proc EXCEPT ![l].raised = is_running]
            /\ loop_pc' = [loop_pc EXCEPT ![l] = IF is_running THEN "next" ELSE "sleep"]
            /\ UNCHANGED <<decision_cache, result>>
    /\ UNCHANGED <<is_running, step_count, num_workers, agents_per_step,
                   start_pending, batch, loop_pos, tick_log>>
    /\ UNCHANGED <<rlVars, sanVars, engVars, planVars>>

\* reason() is over. If it returned, the action is executed (_execute_action,
\* once) and learnt and the
\* result is cached with the step counter of this moment; if it raised, or
\* executing or learning raised, the except branch ends the worker's turn.
LoopReasonDone(l, ok) ==
    /\ loop_pc[l] = "reason"
    /\ IF ok
       THEN /\ decision_cache' = [decision_cache EXCEPT ![batch[l][loop_pos[l]]] =
                                      step_count]
            /\ result' = [result EXCEPT ![l] = step_count]
            /\ proc' = [proc EXCEPT ![l].stored = step_count, ![l].executed = 1]
            /\ loop_pc' = [loop_pc EXCEPT ![l] = "post"]
       ELSE /\ proc' = [proc EXCEPT ![l].raised = TRUE]
            /\ loop_pc' = [loop_pc EXCEPT ![l] = "next"]
            /\ UNCHANGED <<decision_cache, result>>
    /\ UNCHANGED <<is_running, step_count, num_workers, agents_per_step,
                   start_pending, batch, loop_pos, tick_log>>
    /\ UNCHANGED <<rlVars, sanVars, engVars, planVars>>

LoopPostDoneMutant(l, ok) ==
    /\ loop_pc[l] = "post"
    /\ proc' = [proc EXCEPT ![l].raised = ~ok]
    /\ loop_pc' = [loop_pc EXCEPT ![l] = IF ok THEN "next" ELSE "exited"]
    /\ UNCHANGED <<is_running, step_count, num_workers, agents_per_step,
                   decision_cache, start_pending, batch, loop_pos, result, tick_log>>
    /\ UNCHANGED <<rlVars, sanVars, engVars, planVars>>

\* The journal entry, the agent_action broadcast and the edge-case handling
\* are over; any of them may have raised.
LoopPostDone(l, ok) ==
    /\ loop_pc[l] = "post"
    /\ proc' = [proc EXCEPT ![l].raised = ~ok]
    /\ loop_pc' = [loop_pc EXCEPT ![l] = "next"]
    /\ UNCHANGED <<is_running, step_count, num_workers, agents_per_step,
                   decision_cache, start_pending, batch, loop_pos, result, tick_log>>
    /\ UNCHANGED <<rlVars, sanVars, engVars, planVars>>

\* SimulationEngine.__init__ with the fields below left to the caller.
SchIdle ==
    /\ is_running = FALSE
    /\ step_count = 0
    /\ decision_cache = [w \in WorkerIds |-> NoEntry]
    /\ start_pending = 0
    /\ loop_pc = [l \in Loops |-> "idle"]
    /\ batch = [l \in Loops |-> <<>>]
    /\ loop_pos = [l \in Loops |-> 0]
    /\ result = [l \in Loops |-> NoEntry]
    /\ proc = [l \in Loops |-> NoProc]
    /\ tick_log = <<>>

\* The engine of a run that never starts it.
SchUnused ==
    /\ num_workers = MaxWorkers
    /\ agents_per_step = DefaultBatch
    /\ SchIdle

\* The engine with any of the fleets.
SchInit ==
    /\ \E fleet \in Fleets :
          /\ num_workers = fleet[1]
          /\ agents_per_step = fleet[2]
    /\ SchIdle

\* ---------------------------------------------------------- StanfordPlanner
\* agents_to_plan = self.agents[:2]
PlannedAgents == 2
\* create_full_plan awaits generate_wake_up_hour and generate_daily_plan, each
\* of which awaits _call_llm once (the task decompositions come on top).
CallsPerPlan == 2
\* The _call_llm calls of one start().
PlannerCalls == PlannedAgents * CallsPerPlan
\* The planner is not a caller of reason(): it is none of the lock's holders.
Planner == 0

\* StanfordPlanner._call_llm posts its request: it takes no lock and asks no
\* limiter, whatever the provider.
PlannerCall ==
    /\ plan_inflight = 0
    /\ plan_sent < PlannerCalls
    /\ plan_inflight' = 1
    /\ plan_sent' = plan_sent + 1
    /\ UNCHANGED <<rlVars, sanVars, engVars, schVars>>

\* The backend's response (or the timeout) ends the request.
PlannerDone ==
    /\ plan_inflight = 1
    /\ plan_inflight' = 0
    /\ UNCHANGED <<plan_sent, rlVars, sanVars, engVars, schVars>>

\* No plan is being generated.
PlanIdle ==
    /\ plan_inflight = 0
    /\ plan_sent = 0

\* ------------------------------------------------------------ specifications
RLNext ==
    \/ \E c \in Callers, est \in Costs : RLCall(c, est)
    \/ \E c \in Callers : RLGranted(c)
    \/ \E c \in Callers : RLWake(c)
    \/ \E c \in Callers, actual \in Actuals : RLUpdateCall(c, actual)
    \/ \E c \in Callers : RLUpdateGranted(c)
    \/ \E d \in AdvanceSteps : Advance(d)

\* The rate limiter on its own, called concurrently.
InitRL == RLInit /\ SanInit /\ EngUnused /\ SchUnused /\ PlanIdle

SpecRL == InitRL /\ [][RLNext]_vars

SanNext ==
    \E raw \in RawDecisions, valid_names \in Rosters :
        SanitizeRun(SanAgent, raw, valid_names)

\* The sanitizer on its own: any sequence of raw decisions for one agent.
InitSan == RLIdle /\ SanInit /\ EngUnused /\ SchUnused /\ PlanIdle

SpecSan == InitSan /\ [][SanNext]_vars

HistoryNext ==
    \E raw \in HistoryRaws : HistoryRun(raw)

\* The sanitizer over the successive decisions of one agent, whose history
\* builds up from run to run.
SpecHistory == InitSan /\ [][HistoryNext]_vars

\* The results of a transport invocation whose text, if any, was parsed; an
\* unparsable text takes the branch of "none" and is left to the runs of
\* SpecParse.
ParsedResults ==
    {res \in TransportResults("groq") :
        res.kind # "unparsable" /\ res.tokens = DefaultTokens}

ReasonNext ==
    \/ \E c \in Callers, prompt_ok \in BOOLEAN : ReasonCall(c, prompt_ok)
    \/ \E c \in Callers : ReasonGranted(c)
    \/ \E c \in Callers : ReasonAdmissionResume(c)
    \/ \E c \in Callers : ReasonJitterDone(c)
    \/ \E c \in Callers, res \in ParsedResults : ReasonTransportDone(c, res)
    \/ \E c \in Callers : ReasonBackoffDone(c)
    \/ \E c \in Callers : SleepElapses(c)

\* Concurrent reason() calls, one per caller, with either provider.
InitReason == RLIdle /\ SanInit /\ EngInit /\ SchUnused /\ PlanIdle

SpecReason == InitReason /\ [][ReasonNext]_vars

\* The steps that do not depend on a caller deciding to call reason().
ReasonProgress ==
    \E c \in Callers :
        \/ ReasonGranted(c)
        \/ ReasonAdmissionResume(c)
        \/ ReasonJitterDone(c)
        \/ \E res \in ParsedResults : ReasonTransportDone(c, res)
        \/ ReasonBackoffDone(c)
        \/ SleepElapses(c)

\* The event loop keeps running: while a sleep can end, a transport invocation
\* can end (httpx has a timeout) or a resumed coroutine can run, one does.
ReasonFairness == WF_vars(ReasonProgress)

\* The callers of the runs whose termination is checked: one fewer.
LiveCallers == 1..(NumCallers - 1)

FairReasonNext ==
    \/ \E c \in LiveCallers, prompt_ok \in BOOLEAN : ReasonCall(c, prompt_ok)
    \/ ReasonProgress

FairSpecReason == InitReason /\ [][FairReasonNext]_vars /\ ReasonFairness

\* Every result of a transport invocation whose response reports the 600
\* tokens that were reserved (or no usage at all).
ReservedUsageResults ==
    {res \in TransportResults("groq") : res.tokens = DefaultTokens}

ParseNext ==
    \/ \E c \in LiveCallers, prompt_ok \in BOOLEAN : ReasonCall(c, prompt_ok)
    \/ \E c \in Callers : ReasonGranted(c)
    \/ \E c \in Callers : ReasonAdmissionResume(c)
    \/ \E c \in Callers : ReasonJitterDone(c)
    \/ \E c \in Callers, res \in ReservedUsageResults : ReasonTransportDone(c, res)
    \/ \E c \in Callers : ReasonBackoffDone(c)
    \/ \E c \in Callers : SleepElapses(c)

\* The reason() calls of the same callers, with responses that cannot be
\* parsed among the results of the transport.
SpecParse == InitReason /\ [][ParseNext]_vars

\* The results whose text, if any, was parsed, with every usage reported.
UsageResults == {res \in TransportResults("groq") : res.kind # "unparsable"}

UsageNext ==
    \/ \E c \in LiveCallers, prompt_ok \in BOOLEAN : ReasonCall(c, prompt_ok)
    \/ \E c \in Callers : ReasonGranted(c)
    \/ \E c \in Callers : ReasonAdmissionResume(c)
    \/ \E c \in Callers : ReasonJitterDone(c)
    \/ \E c \in Callers, res \in UsageResults : ReasonTransportDone(c, res)
    \/ \E c \in Callers : ReasonBackoffDone(c)
    \/ \E c \in Callers : SleepElapses(c)

\* The reason() calls of the same callers, with responses that report fewer
\* or more tokens than the 600 reserved.
SpecUsage == InitReason /\ [][UsageNext]_vars

BackendNext ==
    \/ FairReasonNext
    \/ PlannerCall
    \/ PlannerDone

\* The reason() calls of the loop together with the planner calls of a
\* start(): stop() then start() leaves the loop that is suspended in reason()
\* alive while _generate_stanford_plans runs.
SpecBackend == InitReason /\ [][BackendNext]_vars

\* A history of 10 entries, as 10 runs leave it: the four actions in turn,
\* about nobody.
FullHistory ==
    [i \in 1..HistoryCap |->
        [action |-> ValidActionsList[(i % Len(ValidActionsList)) + 1], target |-> Str("")]]
\* The histories the engine holds for each agent when the calls begin: none,
\* one short of the cap, and at the cap.
PriorHistories == {<<>>, SubSeq(FullHistory, 1, HistoryCap - 1), FullHistory}

\* The engine after earlier ticks: every agent has one of these histories.
InitCap ==
    /\ RLIdle /\ EngInit /\ SchUnused /\ PlanIdle
    /\ action_history \in {[a \in Agents |-> h] : h \in PriorHistories}
    /\ san_raw = NoDecision
    /\ san_names = <<>>
    /\ san_out = [raised |-> FALSE, result |-> NoDecision]
    /\ san_runs = 0

\* The reason() calls of the loop over histories that are empty, nearly full
\* and full.
SpecCap == InitCap /\ [][FairReasonNext]_vars

SchedNext ==
    \/ StartCall
    \/ \E l \in Loops : StartSpawn(l)
    \/ Stop
    \/ \E l \in Loops, pre \in PreOutcomes : LoopTick(l, pre)
    \/ \E l \in Loops, pre \in PreOutcomes : LoopNext(l, pre)
    \/ \E l \in Loops, ok \in BOOLEAN : LoopReasonDone(l, ok)
    \/ \E l \in Loops, ok \in BOOLEAN : LoopPostDone(l, ok)
    \/ \E l \in Loops : LoopCrash(l)

\* The simulation loop with start() and stop(); reason() is taken as a call
\* that returns a decision or raises.
InitSched == RLIdle /\ SanInit /\ EngUnused /\ SchInit /\ PlanIdle

SpecSched == InitSched /\ [][SchedNext]_vars

\* ---------------------------------------------------------------- the claims
\* C1: in every 60-second window (the window ending at any admission) at most
\* rpm_limit requests are admitted; so the admission that follows rpm_limit
\* others (the third of three back-to-back calls when rpm_limit = 2) waits
\* until the first of them is 60 s old.
C1_AdmissionBound ==
    /\ \A i \in 1..Len(admit_log) : Cardinality(AdmittedInWindow(i)) <= rpm_limit
    /\ \A i \in 1..Len(admit_log) :
           i > rpm_limit => admit_log[i][2] - admit_log[i - rpm_limit][2] >= WindowTicks

\* Scenario A: rpm_limit = 2, three calls issued at the same instant, two
\* admitted at once and the third only after the first aged out.
C1_Witness ==
    /\ rpm_limit = 2
    /\ Len(admit_log) = 3
    /\ \A i \in 1..3 : admit_log[i][1] = 0
    /\ admit_log[1][2] = 0 /\ admit_log[2][2] = 0
    /\ admit_log[3][2] >= WindowTicks

\* C7: the reservations younger than 60 s sum to at most tpm_limit, or exceed
\* it by no more than one overshoot correction that is itself still young.
C7_TokenBound ==
    \/ YoungTokenSum <= tpm_limit
    \/ \E i \in 1..Len(correction_log) :
          /\ now - correction_log[i][2] < WindowTicks
          /\ YoungTokenSum - correction_log[i][1] <= tpm_limit

\* C6: whatever the sanitizer returns has one of the four actions, and a
\* returned talk has a target that matches an entry of the roster.
C6_SanitizerTotality ==
    (san_runs > 0 /\ ~san_out.raised) =>
        /\ IsStr(san_out.result.action)
        /\ StrOf(san_out.result.action) \in ValidActions
        /\ StrOf(san_out.result.action) = "talk" =>
              /\ IsStr(san_out.result.target)
              /\ \E i \in 1..Len(san_names) :
                    FuzzyMatch(StrOf(san_out.result.target), san_names[i])

\* xs is an initial segment of ys
IsPrefix(xs, ys) ==
    Len(xs) <= Len(ys) /\ SubSeq(ys, 1, Len(xs)) = xs

\* C2: calls get the serializer lock in the order in which they reached it,
\* and once a call B that got the lock after a call A has begun a transport
\* invocation, A has returned: all of A's attempts and backoff sleeps are over.
C2_FCFS ==
    /\ IsPrefix(acquire_order, enqueue_order)
    /\ \A i \in DOMAIN acquire_order, j \in DOMAIN acquire_order :
           (i < j /\ transports[acquire_order[j]] > 0)
               => pc[acquire_order[i]] = "returned"

\* Caller 2 got the lock first and used all three attempts while 3 and then 1
\* queued up; 3 was granted the lock next and its transport is in flight.
C2_Witness ==
    /\ enqueue_order = <<2, 3, 1>>
    /\ acquire_order = <<2, 3>>
    /\ transports[2] = MaxAttempts /\ pc[2] = "returned"
    /\ pc[3] = "transport" /\ pc[1] = "lockwait"

\* C3: at most one reason() call is inside the serialized section (admission,
\* jitter, transport, sanitizing, backoff) at any moment, and it holds the lock.
C3_MutualExclusion ==
    /\ Cardinality({c \in Callers : pc[c] \in Inside}) <= 1
    /\ \A c \in Callers : pc[c] \in Inside => eng_holder = {c}

\* A transport call is in flight while the two other callers want in.
C3_Witness ==
    /\ pc[1] = "transport"
    /\ pc[2] = "lockwait" /\ pc[3] = "lockwait"

\* What _fallback_decision may return for a call.
ValidFallback(d) ==
    /\ IsStr(d.action) /\ StrOf(d.action) \in FallbackActions
    /\ StrOf(d.action) \in ValidActions
    /\ IsStr(d.target) /\ StrOf(d.target) \in FallbackTargets(StrOf(d.action))
    /\ d.dialogue = Null

\* C4 (safety half): a call never starts a fourth attempt; a call that ended
\* without a sanitized result has returned a fallback: work, rest or move, a
\* target from that action's list, and a null dialogue.
C4_FallbackValid ==
    \A c \in Callers :
        /\ attempt[c] < MaxAttempts /\ transports[c] <= MaxAttempts
        /\ outcomes[c] = "fallback" => pc[c] = "returned"
        /\ (outcomes[c] = "fallback" /\ returned_to = {c}) => ValidFallback(decision)
        /\ (pc[c] = "returned" /\ outcomes[c] # "sanitized") => outcomes[c] = "fallback"

\* C4: a call that entered the retry loop returns, whatever the transport
\* does, and what it returns when nothing succeeded is a valid fallback.
C4_FallbackLiveness ==
    /\ []C4_FallbackValid
    /\ \A c \in LiveCallers :
           (pc[c] \in Inside \cup {"lockwait"}) ~> (pc[c] = "returned")

\* All three transport invocations of a groq call failed and it returned a
\* fallback.
C4_Witness ==
    \E c \in Callers :
        /\ llm_provider = "groq"
        /\ pc[c] = "returned" /\ outcomes[c] = "fallback"
        /\ transports[c] = MaxAttempts
        /\ returned_to = {c} /\ ValidFallback(decision)

\* C5: no reason() call ends by raising to its caller.
C5_NeverRaises ==
    \A c \in Callers : pc[c] # "raised"

\* The worker the loop l is at.
WorkerOf(l) == batch[l][loop_pos[l]]

\* Whether only the first loop task was ever created.
OneLoop == \A l \in Loops : l # 1 => loop_pc[l] = "idle"

\* C8 as stated: a lookup at step t of an entry of step s with t - s < 3 reuses
\* the decision and calls nothing; every other lookup makes an orchestrator
\* call and is followed by the entry being overwritten with step t.
C8_AlwaysRefetched ==
    \A l \in Loops : proc[l].looked =>
        IF proc[l].before # NoEntry /\ proc[l].at - proc[l].before < CacheDuration
        THEN /\ proc[l].hit /\ ~proc[l].called /\ proc[l].stored = 0
             /\ result[l] = proc[l].before
        ELSE /\ ~proc[l].hit /\ proc[l].called
             /\ loop_pc[l] \in {"post", "next"} => proc[l].stored = proc[l].at

\* C8, amended: a lookup at step t of an entry of step s hits exactly when
\* t - s < 3; a hit reuses the cached decision and neither calls nor stores;
\* a miss runs the worker's PARL step, and only if that step returns is the
\* entry overwritten, with the step counter of that moment (which is t when
\* one loop runs); a step that raised stores nothing.
C8_CacheFreshness ==
    \A l \in Loops : proc[l].looked =>
        /\ proc[l].hit <=>
               (proc[l].before # NoEntry /\ proc[l].at - proc[l].before < CacheDuration)
        /\ proc[l].hit =>
               /\ ~proc[l].called /\ proc[l].stored = 0
               /\ result[l] = proc[l].before
               /\ proc[l].at - result[l] < CacheDuration
        /\ ~proc[l].hit =>
               /\ proc[l].called \/ proc[l].raised
               /\ loop_pc[l] = "post" => (proc[l].stored # 0 /\ result[l] = proc[l].stored)
               /\ proc[l].stored # 0 =>
                      /\ proc[l].called
                      /\ proc[l].at <= proc[l].stored /\ proc[l].stored <= step_count
                      /\ decision_cache[WorkerOf(l)] >= proc[l].stored
               /\ (proc[l].stored # 0 /\ OneLoop) =>
                      /\ proc[l].stored = proc[l].at
                      /\ decision_cache[WorkerOf(l)] = proc[l].at
               /\ (proc[l].stored = 0 /\ OneLoop) =>
                      decision_cache[WorkerOf(l)] = proc[l].before

\* The entry stored at step 1 has expired at step 4: the lookup missed and the
\* entry was overwritten with step 4.
C8_Witness ==
    \E l \in Loops :
        /\ loop_pc[l] = "post"
        /\ proc[l].looked /\ proc[l].before = 1 /\ proc[l].at = CacheDuration + 1
        /\ proc[l].stored = CacheDuration + 1
        /\ decision_cache[WorkerOf(l)] = CacheDuration + 1

\* ceil(n / k)
CeilDiv(n, k) == (n + k - 1) \div k

\* How often worker w is selected in the ticks i..j of the log.
RECURSIVE Selections(_, _, _)
Selections(w, i, j) ==
    IF i > j THEN 0
    ELSE Cardinality({p \in DOMAIN tick_log[i][2] : tick_log[i][2][p] = w})
         + Selections(w, i + 1, j)

\* Every tick increments the step counter by one and selects the workers at
\* indices ((step - 1) * k + i) mod n, i in 0..k-1.
SelectionRule ==
    /\ Len(tick_log) = step_count
    /\ \A i \in DOMAIN tick_log :
           /\ tick_log[i][1] = i
           /\ Len(tick_log[i][2]) = agents_per_step
           /\ \A p \in 1..agents_per_step :
                  tick_log[i][2][p] = ((i - 1) * agents_per_step + (p - 1)) % num_workers

\* The windows of ceil(n / k) consecutive ticks in the log, by their first tick.
Windows ==
    {i \in DOMAIN tick_log : i + CeilDiv(num_workers, agents_per_step) - 1 <= Len(tick_log)}

\* C9 as stated: the selection rule, and in every ceil(n / k) consecutive ticks
\* every worker is selected exactly once.
C9_ExactlyOnce ==
    /\ SelectionRule
    /\ \A i \in Windows : \A w \in 0..(num_workers - 1) :
           Selections(w, i, i + CeilDiv(num_workers, agents_per_step) - 1) = 1

\* C9, amended: the selection rule, and in every ceil(n / k) consecutive ticks
\* every worker is selected at least once, exactly once when k divides n.
C9_RoundRobin ==
    /\ SelectionRule
    /\ \A i \in Windows : \A w \in 0..(num_workers - 1) :
           LET times == Selections(w, i, i + CeilDiv(num_workers, agents_per_step) - 1)
           IN  /\ times >= 1
               /\ num_workers % agents_per_step = 0 => times = 1

\* Three agents in batches of two: in the two ticks of a window one worker
\* is selected twice.
C9_Witness ==
    /\ num_workers = 3 /\ agents_per_step = 2
    /\ Len(tick_log) >= 2
    /\ \E w \in 0..2 : Selections(w, 1, 2) = 2

\* C10 as stated (its last part): when a worker's processing has raised, the
\* worker's cache entry is what it was before the processing.
C10_EntryUnchanged ==
    \A l \in Loops :
        (loop_pc[l] = "next" /\ proc[l].raised) =>
            decision_cache[WorkerOf(l)] = proc[l].before

\* The loop l takes a step that ends its worker's turn with an exception.
RaisesNow(l) ==
    /\ proc'[l].raised /\ loop_pc'[l] = "next"
    /\ loop_pc[l] # "next" \/ loop_pos'[l] # loop_pos[l]

\* The loop l leaves the head of the for loop.
MovesOn(l) ==
    /\ loop_pc[l] = "next"
    /\ <<loop_pc'[l], loop_pos'[l], proc'[l]>> # <<loop_pc[l], loop_pos[l], proc[l]>>

\* C10, amended: a worker's exception never ends the loop task and never
\* changes the cache: the loop goes on with the next worker of the batch
\* (unless the engine was stopped) and then to the next tick; the entry is the
\* old one only if the failure came before the cache store, and the newly
\* stored one if it came after it.
C10_Isolation ==
    /\ [](\A l \in Loops : proc[l].raised =>
              /\ loop_pc[l] = "next"
              /\ OneLoop => decision_cache[WorkerOf(l)] =
                                IF proc[l].stored = 0 THEN proc[l].before
                                ELSE proc[l].stored)
    /\ [][\A l \in Loops :
              /\ RaisesNow(l) => decision_cache' = decision_cache
              /\ MovesOn(l) =>
                     IF is_running /\ loop_pos[l] < Len(batch[l])
                     THEN /\ loop_pos'[l] = loop_pos[l] + 1
                          /\ loop_pc'[l] \in {"reason", "post", "next"}
                     ELSE loop_pc'[l] = "sleep"]_vars

\* The first worker of a batch of two failed after its fresh decision had
\* been cached, and the second worker's reasoning call is under way.
C10_Witness ==
    \E l \in Loops :
        /\ Len(batch[l]) = 2 /\ loop_pos[l] = 2 /\ loop_pc[l] = "reason"
        /\ batch[l][1] # batch[l][2]
        /\ decision_cache[batch[l][1]] = step_count
        /\ decision_cache[batch[l][2]] = NoEntry

\* The last sanitizer run was given a string action and returned.
ReturnedFor(action) ==
    san_runs > 0 /\ ~san_out.raised /\ san_raw.action = Str(action)

\* Whether the string s ends with the string e.
EndsWith(s, e) ==
    Len(s) >= Len(e) /\ SubSeq(s, Len(s) - Len(e) + 1, Len(s)) = e

\* C13: a Decision the sanitizer returns has a dialogue only if its action
\* is talk.
C13_DialogueOnlyForTalk ==
    (san_runs > 0 /\ ~san_out.raised) =>
        (san_out.result.dialogue \notin {Null, Absent} =>
            san_out.result.action = Str("talk"))

\* C15: the sanitizer never raises, whatever dictionary it is given.
C15_SanitizerNeverRaises ==
    san_runs > 0 => ~san_out.raised

\* The action of the last run's raw decision is a string that is none of the
\* four valid actions, and the run returned.
InvalidActionReturned ==
    /\ san_runs > 0 /\ ~san_out.raised
    /\ IsStr(san_raw.action)
    /\ Lower(StrOf(san_raw.action)) \notin {"move", "talk", "work", "rest"}

C19_WorkOnPersonIsTalk ==
    (/\ ReturnedFor("work")
     /\ IsStr(san_raw.target) /\ StrOf(san_raw.target) # ""
     /\ \E i \in 1..Len(san_names) : FuzzyMatch(StrOf(san_raw.target), san_names[i]))
    => /\ san_out.result.action = Str("talk")
       /\ san_out.result.target = san_raw.target

\* C20: with an empty history, the raw decision {action: "fly", target: "roof"}
\* comes back with action rest and a correction note at the end of its thought.
C20_FlyToRoof ==
    (san_runs > 0 /\ san_raw.action = Str("fly") /\ san_raw.target = Str("roof")) =>
        /\ ~san_out.raised
        /\ san_out.result.action = Str("rest")
        /\ IsStr(san_out.result.thought)
        /\ EndsWith(StrOf(san_out.result.thought), "corrected)")

\* The history the last run of the sanitizer found: the run, having returned,
\* appended one entry to it (the cap of 10 is not reached).
PriorHistory ==
    SubSeq(action_history[SanAgent], 1, Len(action_history[SanAgent]) - 1)

\* The last run returned a Decision for a raw decision with this action.
HistoryReturned(action) ==
    /\ san_runs > 0 /\ ~san_out.raised
    /\ san_raw.action = Str(action)
    /\ Len(action_history[SanAgent]) = san_runs

\* C11: when at least 2 of the last 3 history entries are talks whose target
\* matches the raw target X (a substring either way, whatever the case), a raw
\* talk to X comes back as work on "regular duties".
C11_TalkLoopBroken ==
    (/\ HistoryReturned("talk")
     /\ IsStr(san_raw.target)
     /\ Cardinality({i \in DOMAIN LastN(PriorHistory, 3) :
            /\ LastN(PriorHistory, 3)[i].action = "talk"
            /\ FuzzyMatch(StrOf(LastN(PriorHistory, 3)[i].target),
                          StrOf(san_raw.target))}) >= 2)
    => /\ san_out.result.action = Str("work")
       /\ san_out.result.target = Str("regular duties")

\* C12: when the last 4 history entries all have the action A of the raw
\* decision, the Decision that comes back has another action, one of the four.
C12_MonotonyBroken ==
    \A A \in {"move", "talk", "work", "rest"} :
        (/\ HistoryReturned(A)
         /\ Len(PriorHistory) >= 4
         /\ \A i \in DOMAIN LastN(PriorHistory, 4) : LastN(PriorHistory, 4)[i].action = A)
        => /\ san_out.result.action # Str(A)
           /\ san_out.result.action \in {Str("move"), Str("talk"), Str("work"), Str("rest")}

\* After four rests a fifth rest came back as a move to the Mess Hall.
C12_Witness ==
    /\ HistoryReturned("rest")
    /\ Len(PriorHistory) = 4
    /\ \A i \in 1..4 : PriorHistory[i].action = "rest"
    /\ san_out.result.action = Str("move")
    /\ san_out.result.target = Str("Mess Hall")
    /\ san_out.result.thought = Str("why (Diversified from rest pattern)")

\* C14: whatever the history, a raw decision has one outcome: the Decision
\* returned and the history left are functions of raw decision, history and
\* roster.
C14_Deterministic ==
    \A raw \in HistoryRaws :
        Cardinality(SanitizeResponse(raw, action_history[SanAgent], CrewRoster)) = 1

\* C16: once a response of a call could not be parsed, the call is over: it
\* returned the fallback Decision and began no transport invocation after the
\* one that brought the response.
C16_NoRetryAfterMalformed ==
    \A c \in Callers :
        parse_failed[c] =>
            /\ pc[c] = "returned"
            /\ outcomes[c] = "fallback"
            /\ returned_to = {c} => decision \in FallbackDecisions

\* C17: while the running flag stays cleared no tick begins (the step counter
\* and the log of ticks stay as they are) and no loop goes on to another worker
\* of its batch; a reasoning call in flight is not cancelled: it can still
\* return, and when it ends its worker's turn ends as it would have, with the
\* decision cached or with the exception caught.
C17_StopHalts ==
    /\ [][(~is_running /\ ~is_running') =>
              /\ step_count' = step_count
              /\ tick_log' = tick_log
              /\ batch' = batch
              /\ \A l \in Loops : loop_pos'[l] \in {loop_pos[l], 0}]_vars
    /\ [](\A l \in Loops :
              /\ loop_pc[l] = "reason" => ENABLED LoopReasonDone(l, TRUE)
              /\ loop_pc[l] = "post" => ENABLED LoopPostDone(l, TRUE))
    /\ [][\A l \in Loops :
              (~is_running /\ loop_pc[l] = "reason" /\ loop_pc'[l] # "reason") =>
                  \/ /\ loop_pc'[l] = "post"
                     /\ proc'[l].stored = step_count
                     /\ decision_cache'[WorkerOf(l)] = step_count
                  \/ /\ loop_pc'[l] = "next"
                     /\ proc'[l].raised]_vars

\* The engine was stopped while the first worker of a batch of two was in its
\* reasoning call.
C17_Witness ==
    /\ ~is_running
    /\ \E l \in Loops :
          /\ loop_pc[l] = "reason"
          /\ Len(batch[l]) = 2 /\ loop_pos[l] = 1

\* C21: wait_for_capacity never raises, whatever the limits, the cost and the
\* ledgers.
C21_LimiterNeverRaises ==
    \A c \in Callers : rl_pc[c] # "raised"

\* C22: the step in which update_actual_usage(estimated, actual) runs its body
\* appends the one reservation <<actual - estimated, now>> when actual >
\* estimated and leaves the reservations as they are otherwise; it never
\* touches the request timestamps; a call that has to wait for the lock
\* changes neither ledger.
C22_CorrectionFrame ==
    [][\A c \in Callers :
          /\ (rl_pc[c] \in {"admitted", "updwait"} /\ rl_pc'[c] = "done") =>
                 /\ request_timestamps' = request_timestamps
                 /\ token_timestamps' =
                        IF rl_actual'[c] > rl_est[c]
                        THEN Append(token_timestamps,
                                    <<rl_actual'[c] - rl_est[c], now>>)
                        ELSE token_timestamps
          /\ (rl_pc[c] = "admitted" /\ rl_pc'[c] = "updwait") =>
                 /\ request_timestamps' = request_timestamps
                 /\ token_timestamps' = token_timestamps]_vars

\* One caller reported less than its estimate and left no trace, another
\* reported more and its excess is the last reservation.
C22_Witness ==
    \E c, d \in Callers :
        /\ rl_pc[c] = "done" /\ rl_actual[c] <= rl_est[c]
        /\ rl_pc[d] = "done" /\ rl_actual[d] > rl_est[d]
        /\ Len(correction_log) = 1
        /\ token_timestamps # <<>>
        /\ token_timestamps[Len(token_timestamps)] =
               <<rl_actual[d] - rl_est[d], correction_log[1][2]>>

\* C23: with the provider ollama no reason() call is ever in the limiter or in
\* the jitter sleep, and the ledgers stay empty: nothing was admitted, nothing
\* reserved, nobody slept for capacity.
C23_LocalBypass ==
    llm_provider = "ollama" =>
        /\ request_timestamps = <<>>
        /\ token_timestamps = <<>>
        /\ admit_log = <<>>
        /\ \A c \in Callers :
               /\ rl_pc[c] = "idle"
               /\ pc[c] \notin {"admission", "jitter"}

\* With ollama every call is over: one got a decision on its first transport
\* invocation, another used all three.
C23_Witness ==
    /\ llm_provider = "ollama"
    /\ \A c \in Callers : pc[c] = "returned"
    /\ \E c, d \in Callers :
          /\ transports[c] = 1 /\ outcomes[c] = "sanitized"
          /\ transports[d] = MaxAttempts /\ outcomes[d] = "fallback"

\* C24: a call invokes the transport at most 3 times; once a response of it
\* was parsed the call is over and returned the sanitized decision; the
\* fallback is returned only after 3 invocations.
C24_BoundedRetries ==
    \A c \in Callers :
        /\ transports[c] <= 3
        /\ parsed[c] => (pc[c] = "returned" /\ outcomes[c] = "sanitized")
        /\ outcomes[c] = "fallback" => transports[c] = 3

RECURSIVE SumTransports(_)
\* The transport invocations of the calls in S.
SumTransports(S) ==
    IF S = {} THEN 0
    ELSE LET c == CHOOSE x \in S : TRUE
         IN  transports[c] + SumTransports(S \ {c})

\* C25: at most one request to the backend is in flight, whoever sent it; the
\* sender holds the serializer lock; and with groq every request sent was
\* admitted by the limiter first, so the admissions are at least the requests.
C25_AllCallsSerialized ==
    /\ Cardinality({c \in Callers : pc[c] = "transport"}) + plan_inflight <= 1
    /\ plan_inflight > 0 => eng_holder = {Planner}
    /\ llm_provider = "groq" =>
           SumTransports(Callers) + plan_sent <= Len(admit_log)

\* C26: a worker whose journal entry is about to be recorded and broadcast had
\* its decision's action executed once in this turn, on a hit as on a miss.
C26_ExecutedOnce ==
    \A l \in Loops : loop_pc[l] = "post" => proc[l].executed = 1

\* C27: at most one _simulation_loop task is alive (created and not ended),
\* whatever start() and stop() calls were made.
C27_SingleLoop ==
    Cardinality({l \in Loops : loop_pc[l] \notin {"idle", "exited"}}) <= 1

\* The last run was given a talk (in whatever case) with a string thought and a
\* string target that matches no entry of the roster it was given.
GhostTalk ==
    /\ san_runs > 0
    /\ IsStr(san_raw.action) /\ Lower(StrOf(san_raw.action)) = "talk"
    /\ IsStr(san_raw.thought) /\ IsStr(san_raw.target)
    /\ \A i \in 1..Len(san_names) : ~FuzzyMatch(StrOf(san_raw.target), san_names[i])

\* C28: with fewer than 4 history entries, a raw talk whose target matches no
\* roster entry comes back as work on "station duties", whatever the target
\* (a target with a title such as "dr." included).
C28_GhostTalkDemoted ==
    GhostTalk =>
        /\ ~san_out.raised
        /\ san_out.result.action = Str("work")
        /\ san_out.result.target = Str("station duties")

\* C29: after a run that returned, the last history entry of the agent carries
\* the action and the target of the Decision the run returned.
C29_HistoryIsReturned ==
    (san_runs > 0 /\ ~san_out.raised) =>
        LET h == action_history[SanAgent]
        IN  /\ Len(h) > 0
            /\ Str(h[Len(h)].action) = san_out.result.action
            /\ h[Len(h)].target = san_out.result.target

\* The calls that were admitted by the limiter and have not yet invoked the
\* transport: they sleep the jitter.
InJitter == {c \in Callers : pc[c] = "jitter"}

\* A step in which call c invokes the transport.
Invokes(c) == transports'[c] = transports[c] + 1

\* A step in which the limiter admits call c: one request timestamp and one
\* reservation of 600 tokens, both of this instant, are added to the ledgers.
Admits(c) ==
    /\ pc[c] # "jitter" /\ pc'[c] = "jitter"
    /\ Len(admit_log') = Len(admit_log) + 1
    /\ request_timestamps' # <<>>
    /\ request_timestamps'[Len(request_timestamps')] = now
    /\ token_timestamps' # <<>>
    /\ token_timestamps'[Len(token_timestamps')] = <<600, now>>

\* C30: with groq every transport invocation follows an admission of its own
\* in the same attempt. The admissions are the invocations plus the one of a
\* call in its jitter sleep; a call invokes the transport only out of the
\* jitter sleep its admission led to; the ledgers grow only by an admission,
\* one request timestamp and one reservation of 600 tokens each.
C30_AdmissionPerAttempt ==
    /\ [](llm_provider = "groq" =>
             /\ Len(admit_log) = SumTransports(Callers) + Cardinality(InJitter)
             /\ \A i \in DOMAIN token_timestamps : token_timestamps[i][1] = 600
             /\ Len(request_timestamps) = Len(token_timestamps))
    /\ [][llm_provider = "groq" =>
             /\ \A c \in Callers : Invokes(c) => pc[c] = "jitter" /\ pc'[c] # "jitter"
             /\ \A c \in Callers : pc'[c] = "jitter" /\ pc[c] # "jitter" => Admits(c)
             /\ admit_log' # admit_log => \E c \in Callers : Admits(c)]_vars

\* With groq a call used all three attempts and returned the fallback: three
\* admissions, three request timestamps, three reservations of 600 tokens.
C30_Witness ==
    /\ llm_provider = "groq"
    /\ \E c \in Callers :
          /\ outcomes[c] = "fallback" /\ transports[c] = MaxAttempts
          /\ SumTransports(Callers) = MaxAttempts
    /\ Len(admit_log) = MaxAttempts
    /\ Len(request_timestamps) = MaxAttempts
    /\ token_timestamps = [i \in 1..MaxAttempts |-> <<600, admit_log[i][2]>>]

\* A step in which a transport invocation of call c ends with the rate-limit
\* signal: the call starts the backoff sleep of the 429 branch.
Throttled(c) ==
    /\ pc[c] = "transport" /\ pc'[c] = "backoff"
    /\ prev_backoff'[c] = eng_sleep'[c]

\* C31: within one reason() call, each rate-limit backoff is at least twice
\* the rate-limit backoff before it.
C31_ExponentialBackoff ==
    [][\A c \in Callers :
          (Throttled(c) /\ prev_backoff[c] > 0) =>
              eng_sleep'[c] >= 2 * prev_backoff[c]]_vars

\* A step in which a transport invocation of call c ends in a failure of the
\* transport (no response of the call was parsed so far) and the call goes on.
TransportFailed(c) ==
    /\ pc[c] = "transport" /\ pc'[c] # "returned"
    /\ pc'[c] # "transport" \/ transports'[c] # transports[c]
    /\ ~parsed'[c]

\* C32: a failed transport attempt that the call retries is followed by a
\* backoff sleep, of at least the fixed short backoff, before the next attempt.
C32_BackoffBeforeRetry ==
    [][\A c \in Callers :
          TransportFailed(c) =>
              /\ pc'[c] = "backoff"
              /\ attempt'[c] = attempt[c]
              /\ eng_sleep'[c] >= ErrorBackoff]_vars

\* C33: with groq, once a call has returned the decision of a response whose
\* total_tokens exceed the 600 reserved, the excess was reported to the
\* limiter: an additional reservation of the excess was appended.
C33_UsageReported ==
    \A c \in Callers :
        (/\ llm_provider = "groq"
         /\ returned_to = {c} /\ outcomes[c] = "sanitized"
         /\ total_tokens > EstimatedUsage)
        => \E i \in DOMAIN correction_log :
               correction_log[i][1] = total_tokens - EstimatedUsage

\* The lock is held only by a call that is inside the loop or was just handed
\* it: a call that returned, raised or never started does not hold it, and
\* with no call inside, and nobody waiting, it is free.
LockReleasedOnExit ==
    /\ \A c \in Callers :
           pc[c] \in {"idle", "returned", "raised"} => c \notin eng_holder
    /\ (\A c \in Callers : pc[c] \notin Inside \cup {"lockwait"}) =>
           LockFree(eng_holder, eng_waiters)

\* C34: with the event loop running, every transport invocation ending and
\* time advancing, a reason() call that waits for the serializer lock is
\* handed it and returns; the lock is released on every exit of reason().
C34_NoStarvation ==
    /\ []LockReleasedOnExit
    /\ \A c \in LiveCallers :
           /\ (pc[c] = "lockwait") ~> (eng_holder = {c})
           /\ (pc[c] = "lockwait") ~> (pc[c] = "returned" /\ c \notin eng_holder)

\* A call that used all its attempts returned the fallback, and its release
\* handed the lock to the call that was waiting.
C34_Witness ==
    \E c, d \in LiveCallers :
        /\ pc[c] = "lockwait" /\ eng_holder = {c}
        /\ pc[d] = "returned" /\ outcomes[d] = "fallback"
        /\ acquire_order = <<d>> /\ enqueue_order = <<d, c>>

\* Whether the n entries of the history h that end at position i all have the
\* same action.
SameActionRun(h, i, n) ==
    /\ i >= n
    /\ \A j \in (i - n + 1)..i : h[j].action = h[i].action

\* C35: whatever decisions the sanitizer was given for a worker, the worker's
\* history never has 5 consecutive entries with the same action.
C35_NoFiveInARow ==
    \A i \in DOMAIN action_history[SanAgent] :
        ~SameActionRun(action_history[SanAgent], i, 5)

\* The worker's model asked for the same action a fifth time in a row; the
\* four entries before the last have it, the last has another.
C35_Witness ==
    LET h == action_history[SanAgent]
    IN  /\ Len(h) = 5 /\ san_runs = 5 /\ ~san_out.raised
        /\ SameActionRun(h, 4, 4)
        /\ san_raw.action = Str(h[4].action)
        /\ h[5].action # h[4].action

\* Whether the 3 entries of the history h that end at position i are talks
\* with one and the same non-empty target.
SameTalkRun(h, i) ==
    /\ i >= 3
    /\ h[i].target # Str("")
    /\ \A j \in (i - 2)..i : h[j].action = "talk" /\ h[j].target = h[i].target

\* C36: a worker's history never has 3 consecutive talks with the same
\* non-empty target; and a talk with an empty target is not caught by the
\* loop check: it comes back as a talk (unless the last 4 entries are talks,
\* when step 5 draws another action), never as work on "regular duties".
C36_NoTalkLoop ==
    /\ \A i \in DOMAIN action_history[SanAgent] :
           ~SameTalkRun(action_history[SanAgent], i)
    /\ (HistoryReturned("talk") /\ san_raw.target = Str("")) =>
           /\ san_out.result.target # Str("regular duties")
           /\ \/ san_out.result.action = Str("talk")
              \/ SameActionRun(PriorHistory, Len(PriorHistory), 4)

\* After two talks to "ananya" a third one was asked for: it came back as
\* work on "regular duties" and was recorded as work.
C36_Witness ==
    LET h == action_history[SanAgent]
    IN  /\ san_runs = 3 /\ Len(h) = 3
        /\ HistoryReturned("talk") /\ san_raw.target = Str("ananya")
        /\ h[1] = [action |-> "talk", target |-> Str("ananya")]
        /\ h[2] = h[1]
        /\ h[3].action = "work"
        /\ san_out.result.target = Str("regular duties")

\* The workers selected in tick i of the log.
SelectedIn(i) == {tick_log[i][2][p] : p \in DOMAIN tick_log[i][2]}

\* Two selections of one worker are at least floor(n / k) ticks apart.
SelectionGap ==
    \A i, j \in DOMAIN tick_log :
        (i < j /\ SelectedIn(i) \cap SelectedIn(j) # {}) =>
            tick_log[j][1] - tick_log[i][1] >= num_workers \div agents_per_step

\* Only the first loop task exists, the batch is no larger than the fleet and
\* a worker comes back no sooner than the cache entries expire.
SparseSelection ==
    /\ OneLoop /\ agents_per_step <= num_workers
    /\ num_workers \div agents_per_step >= CacheDuration

\* C37 as stated: with one loop and k <= n, the selections of a worker are at
\* least floor(n / k) ticks apart; when floor(n / k) >= cache_duration no
\* lookup is a hit and every selected worker triggers an orchestrator call: no
\* worker's turn ends without one.
C37_NoHitAllCalled ==
    /\ (OneLoop /\ agents_per_step <= num_workers) => SelectionGap
    /\ SparseSelection =>
           \A l \in Loops :
               /\ ~proc[l].hit
               /\ loop_pc[l] = "next" => proc[l].called

\* C37, amended: the gap, and when floor(n / k) >= cache_duration no lookup is
\* a hit; a worker whose turn reached the cache lookup has its PARL step run,
\* which calls the orchestrator unless the step raised before the call.
C37_SelectionGapNoHit ==
    /\ (OneLoop /\ agents_per_step <= num_workers) => SelectionGap
    /\ SparseSelection =>
           \A l \in Loops :
               /\ ~proc[l].hit
               /\ proc[l].looked => (proc[l].called \/ proc[l].raised)
               /\ proc[l].called => proc[l].looked

\* Three workers, one per tick: at tick 4 the first worker is selected again,
\* its entry of tick 1 has expired and the orchestrator is called.
C37_Witness ==
    /\ OneLoop /\ num_workers = 3 /\ agents_per_step = 1
    /\ Len(tick_log) = 4 /\ SelectedIn(1) = SelectedIn(4)
    /\ proc[1].at = 4 /\ proc[1].before = 1
    /\ proc[1].looked /\ ~proc[1].hit /\ proc[1].called

\* A step in which call c returns the decision the sanitizer returned.
SanitizedNow(c) ==
    pc[c] = "transport" /\ pc'[c] = "returned" /\ outcomes'[c] = "sanitized"

\* C38: a sanitizer run that returns appends exactly one entry to the history
\* of its worker and keeps the last 10, so no history is ever longer than 10;
\* every other step, a run of the sanitizer that raised and the return of a
\* fallback decision among them, leaves every history as it was.
C38_HistoryAppend ==
    /\ [](\A a \in Agents : Len(action_history[a]) <= 10)
    /\ [][\A a \in Agents :
              LET h == action_history[a]
                  g == action_history'[a]
              IN  IF \E c \in Callers : AgentOf(c) = a /\ SanitizedNow(c)
                  THEN /\ g # <<>>
                       /\ g[Len(g)].action \in ValidActions
                       /\ g = LastN(Append(h, g[Len(g)]), 10)
                  ELSE g = h]_vars

\* An agent whose history was full got a sanitized decision: the oldest entry
\* is gone and the new one is the last of 10; another agent's call ended in
\* the fallback and its full history is what it was.
C38_Witness ==
    \E c, d \in Callers :
        /\ outcomes[c] = "sanitized" /\ pc[c] = "returned"
        /\ Len(action_history[AgentOf(c)]) = 10
        /\ SubSeq(action_history[AgentOf(c)], 1, 9) = Tail(FullHistory)
        /\ action_history[AgentOf(c)][10] = [action |-> "rest", target |-> Str("self")]
        /\ outcomes[d] = "fallback" /\ pc[d] = "returned"
        /\ action_history[AgentOf(d)] = FullHistory

====
